---------------------------- MODULE Spec2Model ----------------------------
(***************************************************************************)
(* Model of src-tauri/src/main.rs: the YouTube live-chat listener.         *)
(*                                                                         *)
(*  - YoutubeListener::on_response : the network-event callback that polls *)
(*    fetch() for the response body and spawns on_comment.                 *)
(*  - YoutubeListenerInner::on_comment : the spawned task that parses the  *)
(*    body, updates last_comment_fetch / comment_fetch_period and paces    *)
(*    the emission of the comments to the webview.                         *)
(*  - CyclicArray<5> : the ring of recent fetch periods.                   *)
(*  - parse_json / run_to_element : the comment parser.                    *)
(*                                                                         *)
(* Time is counted in ticks of 100 ms.                                      *)
(* A response body is a sequence of lexical tokens <<kind, text, number>>; *)
(* a serde_json::Value is a record tagged by its field t.                  *)
(* An Option is a sequence of length 0 (None) or 1 (Some).                 *)
(***************************************************************************)
EXTENDS Integers, Sequences, FiniteSets, TLC

(***************************************************************************)
(* Option helpers.                                                         *)
(***************************************************************************)
None == <<>>

Some(x) == <<x>>

IsSome(o) == Len(o) = 1

(***************************************************************************)
(* serde_json::Value                                                       *)
(***************************************************************************)
JNull == [t |-> "null"]

JBool(b) == [t |-> "bool", b |-> b]

JInt(n) == [t |-> "int", n |-> n]

JFloat(s) == [t |-> "float", s |-> s]

JStr(s) == [t |-> "str", s |-> s]

JArr(a) == [t |-> "arr", a |-> a]

JObj(m) == [t |-> "obj", m |-> m]

\* Value::get(&str): Some(member) of an object that has the key, else None.
Get(v, key) ==
    IF v.t = "obj" /\ key \in DOMAIN v.m THEN Some(v.m[key]) ELSE None

\* Option<&Value>::and_then(|v| v.get(key)), the `?` chains of the parser.
AndGet(o, key) == IF IsSome(o) THEN Get(o[1], key) ELSE None

\* Value::as_array on an Option: Some(elements) for an array.
AsArray(o) == IF IsSome(o) /\ o[1].t = "arr" THEN Some(o[1].a) ELSE None

\* Value::as_str on an Option.
AsStr(o) == IF IsSome(o) /\ o[1].t = "str" THEN Some(o[1].s) ELSE None

\* Value::is_i64 on an Option (matches!(width, Some(t) if t.is_i64())).
IsI64(o) == IsSome(o) /\ o[1].t = "int"

(***************************************************************************)
(* Tokens of a body text.                                                  *)
(***************************************************************************)
Tok(k) == <<k, "", 0>>

TStr(s) == <<"str", s, 0>>

TInt(n) == <<"int", "", n>>

TFloat(s) == <<"float", s, 0>>

WS == Tok(" ")

IsWs(tok) == tok[1] = " "

\* str::trim: the text without its leading and trailing whitespace.
RECURSIVE TrimStart(_)
TrimStart(s) ==
    IF s # <<>> /\ IsWs(Head(s)) THEN TrimStart(Tail(s)) ELSE s

RECURSIVE TrimEnd(_)
TrimEnd(s) ==
    IF s # <<>> /\ IsWs(s[Len(s)]) THEN TrimEnd(SubSeq(s, 1, Len(s) - 1)) ELSE s

Trim(s) == TrimEnd(TrimStart(s))

\* data.body.trim().is_empty()
TrimIsEmpty(s) == Trim(s) = <<>>

(***************************************************************************)
(* serde_json::from_str: a recursive-descent parser over the tokens.       *)
(* A result is [ok, v, i]: success, the value, the index after it.         *)
(***************************************************************************)
PFail == [ok |-> FALSE, v |-> JNull, i |-> 0]

POk(v, i) == [ok |-> TRUE, v |-> v, i |-> i]

\* The first index at or after i that holds no whitespace.
RECURSIVE SkipWs(_, _)
SkipWs(toks, i) ==
    IF i <= Len(toks) /\ IsWs(toks[i]) THEN SkipWs(toks, i + 1) ELSE i

KindAt(toks, i) == IF i <= Len(toks) THEN toks[i][1] ELSE "eof"

\* Map::insert: a later duplicate key replaces the earlier one.
Insert(m, key, v) ==
    [x \in (DOMAIN m) \cup {key} |-> IF x = key THEN v ELSE m[x]]

RECURSIVE ParseValue(_, _)
RECURSIVE ParseElems(_, _, _)
RECURSIVE ParseMembers(_, _, _)

ParseValue(toks, i0) ==
    LET i == SkipWs(toks, i0)
        k == KindAt(toks, i)
    IN  CASE k = "str"   -> POk(JStr(toks[i][2]), i + 1)
          [] k = "int"   -> POk(JInt(toks[i][3]), i + 1)
          [] k = "float" -> POk(JFloat(toks[i][2]), i + 1)
          [] k = "null"  -> POk(JNull, i + 1)
          [] k = "true"  -> POk(JBool(TRUE), i + 1)
          [] k = "false" -> POk(JBool(FALSE), i + 1)
          [] k = "["     ->
                LET j == SkipWs(toks, i + 1)
                IN  IF KindAt(toks, j) = "]"
                    THEN POk(JArr(<<>>), j + 1)
                    ELSE ParseElems(toks, i + 1, <<>>)
          [] k = "{"     ->
                LET j == SkipWs(toks, i + 1)
                IN  IF KindAt(toks, j) = "}"
                    THEN POk(JObj(<<>>), j + 1)
                    ELSE ParseMembers(toks, i + 1, <<>>)
          [] OTHER       -> PFail

ParseElems(toks, i, acc) ==
    LET r == ParseValue(toks, i)
    IN  IF ~r.ok THEN PFail
        ELSE LET j == SkipWs(toks, r.i)
                 k == KindAt(toks, j)
             IN  CASE k = "," -> ParseElems(toks, j + 1, Append(acc, r.v))
                   [] k = "]" -> POk(JArr(Append(acc, r.v)), j + 1)
                   [] OTHER   -> PFail

ParseMembers(toks, i0, m) ==
    LET i == SkipWs(toks, i0)
        c == SkipWs(toks, i + 1)
    IN  IF KindAt(toks, i) # "str" \/ KindAt(toks, c) # ":" THEN PFail
        ELSE LET r == ParseValue(toks, c + 1)
             IN  IF ~r.ok THEN PFail
                 ELSE LET j == SkipWs(toks, r.i)
                          k == KindAt(toks, j)
                          m2 == Insert(m, toks[i][2], r.v)
                      IN  CASE k = "," -> ParseMembers(toks, j + 1, m2)
                            [] k = "}" -> POk(JObj(m2), j + 1)
                            [] OTHER   -> PFail

\* serde_json::from_str::<Value>: Ok(value) when the whole text is one JSON
\* value (whitespace around it allowed), Err otherwise.  Ok is Some, Err None.
FromStr(toks) ==
    LET r == ParseValue(toks, 1)
    IN  IF r.ok /\ SkipWs(toks, r.i) > Len(toks) THEN Some(r.v) ELSE None

(***************************************************************************)
(* The text of a value, as the browser delivers it (compact form).         *)
(***************************************************************************)
RECURSIVE ToTokens(_)
RECURSIVE JoinTokens(_)
RECURSIVE MemberTokens(_, _)

\* The token texts of a sequence of values, separated by commas.
JoinTokens(parts) ==
    IF parts = <<>> THEN <<>>
    ELSE IF Len(parts) = 1 THEN parts[1]
    ELSE parts[1] \o <<Tok(",")>> \o JoinTokens(Tail(parts))

\* The members of object map m with the keys in `keys`, separated by commas.
MemberTokens(m, keys) ==
    IF keys = {} THEN <<>>
    ELSE LET k == CHOOSE x \in keys : TRUE
             rest == MemberTokens(m, keys \ {k})
         IN  <<TStr(k), Tok(":")>> \o ToTokens(m[k])
                \o (IF rest = <<>> THEN <<>> ELSE <<Tok(",")>> \o rest)

ToTokens(v) ==
    CASE v.t = "null"  -> <<Tok("null")>>
      [] v.t = "bool"  -> <<Tok(IF v.b THEN "true" ELSE "false")>>
      [] v.t = "int"   -> <<TInt(v.n)>>
      [] v.t = "float" -> <<TFloat(v.s)>>
      [] v.t = "str"   -> <<TStr(v.s)>>
      [] v.t = "arr"   ->
            <<Tok("[")>> \o JoinTokens([i \in DOMAIN v.a |-> ToTokens(v.a[i])])
                \o <<Tok("]")>>
      [] v.t = "obj"   ->
            <<Tok("{")>> \o MemberTokens(v.m, DOMAIN v.m) \o <<Tok("}")>>

(***************************************************************************)
(* The comment parser.                                                     *)
(***************************************************************************)
Text(content) == [type |-> "text", content |-> content]

Emoji(url) == [type |-> "emoji", url |-> url]

\* Iterator::min_by_key over the width: the first element of minimum key.
RECURSIVE MinByWidth(_)
MinByWidth(s) ==
    IF s = <<>> THEN None
    ELSE IF Len(s) = 1 THEN Some(s[1])
    ELSE LET best == MinByWidth(SubSeq(s, 1, Len(s) - 1))[1]
             last == s[Len(s)]
         IN  IF Get(last, "width")[1].n < Get(best, "width")[1].n
             THEN Some(last) ELSE Some(best)

\* Iterator::max_by_key over the width: the LAST element of maximum key.
RECURSIVE MaxByWidth(_)
MaxByWidth(s) ==
    IF s = <<>> THEN None
    ELSE IF Len(s) = 1 THEN Some(s[1])
    ELSE LET best == MaxByWidth(SubSeq(s, 1, Len(s) - 1))[1]
             last == s[Len(s)]
         IN  IF Get(last, "width")[1].n >= Get(best, "width")[1].n
             THEN Some(last) ELSE Some(best)

\* The closure of run_to_element that keeps a candidate with an i64 width.
HasWidth(x) == IF IsI64(Get(x, "width")) THEN Some(x) ELSE None

\* image_candidates.iter().flat_map(..): the candidates kept, in order.
RECURSIVE WithWidth(_)
WithWidth(c) ==
    IF c = <<>> THEN <<>> ELSE HasWidth(Head(c)) \o WithWidth(Tail(c))

\* YoutubeListenerInner::run_to_element
run_to_element(run) ==
    IF IsSome(Get(run, "emoji"))
    THEN LET image_candidates ==
                 AsArray(AndGet(AndGet(Get(run, "emoji"), "image"), "thumbnails"))
         IN  IF ~IsSome(image_candidates) THEN None
             ELSE LET c == image_candidates[1]
                      image_object ==
                          IF Len(c) = 0 THEN None
                          ELSE IF Len(c) = 1 THEN Some(c[1])
                          ELSE MaxByWidth(WithWidth(c))
                      url == AsStr(AndGet(image_object, "url"))
                  IN  IF IsSome(url) THEN Some(Emoji(url[1])) ELSE None
    ELSE IF IsSome(Get(run, "text"))
    THEN LET content == AsStr(Get(run, "text"))
         IN  IF IsSome(content) THEN Some(Text(content[1])) ELSE None
    ELSE None

\* A constructor that accepts an empty element list.
SerializedCommentKeepEmpty(elements) == Some([elements |-> elements])

\* SerializedComment::new: None for an empty element list.
SerializedComment(elements) ==
    IF elements = <<>> THEN None ELSE Some([elements |-> elements])

\* The first closure of parse_json: the runs of a text-message action.
ActionRuns(x) ==
    AsArray(AndGet(AndGet(AndGet(AndGet(Get(x, "addChatItemAction"), "item"),
                "liveChatTextMessageRenderer"), "message"), "runs"))

\* .iter().flat_map(..) over the actions: the run lists found, in order.
RECURSIVE AllRuns(_)
AllRuns(actions) ==
    IF actions = <<>> THEN <<>>
    ELSE ActionRuns(Head(actions)) \o AllRuns(Tail(actions))

\* The second closure of parse_json: r.iter().flat_map(run_to_element),
\* the elements of a run list, in order.
RECURSIVE RunsToElements(_)
RunsToElements(r) ==
    IF r = <<>> THEN <<>>
    ELSE run_to_element(Head(r)) \o RunsToElements(Tail(r))

\* .map(..).flat_map(SerializedComment::new) over the run lists: the
\* comments with at least one element, in order.
RECURSIVE CollectComments(_)
CollectComments(runLists) ==
    IF runLists = <<>> THEN <<>>
    ELSE SerializedComment(RunsToElements(Head(runLists)))
            \o CollectComments(Tail(runLists))

\* A parser that gives an empty batch for a document without the path.
parse_jsonOrEmpty(raw) ==
    LET actions ==
            AsArray(AndGet(AndGet(Get(raw, "continuationContents"),
                "liveChatContinuation"), "actions"))
    IN  IF ~IsSome(actions) THEN Some(<<>>)
        ELSE Some(CollectComments(AllRuns(actions[1])))

\* YoutubeListenerInner::parse_json: Some(batch), or None without the path.
parse_json(raw) ==
    LET actions ==
            AsArray(AndGet(AndGet(Get(raw, "continuationContents"),
                "liveChatContinuation"), "actions"))
    IN  IF ~IsSome(actions) THEN None
        ELSE Some(CollectComments(AllRuns(actions[1])))

(***************************************************************************)
(* CyclicArray<N>                                                          *)
(***************************************************************************)
\* The capacity of comment_fetch_period: CyclicArray<5>.
N == 5

\* CyclicArray::new
CyclicArrayNew == [value |-> [i \in 1..N |-> 0], current_index |-> 0]

\* put with the wrap test `current_index >= N`.
putWrapLate(self, d) ==
    [value |-> [self.value EXCEPT ![self.current_index + 1] = d],
     current_index |-> IF self.current_index >= N
                       THEN 0 ELSE self.current_index + 1]

\* CyclicArray::put (value is indexed from 1 here, current_index from 0).
put(self, d) ==
    [value |-> [self.value EXCEPT ![self.current_index + 1] = d],
     current_index |-> IF self.current_index >= N - 1
                       THEN 0 ELSE self.current_index + 1]

RECURSIVE SumSeq(_)
SumSeq(s) == IF s = <<>> THEN 0 ELSE Head(s) + SumSeq(Tail(s))

IsPopulated(d) == d # 0

\* Duration / u32: a fault on a zero divisor, else the truncated quotient.
DurationDiv(d, n) ==
    IF n = 0 THEN [panic |-> TRUE, d |-> 0] ELSE [panic |-> FALSE, d |-> d \div n]

\* The average over all N slots, populated or not.
averageOverCapacity(self) == DurationDiv(SumSeq(self.value), N)

\* CyclicArray::average: sum / count over the slots that are not ZERO.
average(self) ==
    LET populated == SelectSeq(self.value, IsPopulated)
    IN  DurationDiv(SumSeq(populated), Len(populated))

(***************************************************************************)
(* Constants of the program and bounds of the model.                       *)
(***************************************************************************)
\* const POLL_COUNT: usize = 50
POLL_COUNT == 50

\* DEFAULT_FETCH_PERIOD_SECS = 5.2, in ticks of 100 ms.
DEFAULT_FETCH_PERIOD == 52

\* The number of network events delivered / bodies accepted.
MaxResponses == 2

\* The largest value of the monotonic clock (Instant::now), in ticks.
MaxClock == 1

\* The largest sample put into a CyclicArray on its own.
MaxSample == 3

\* The number of put calls made on a CyclicArray on its own.
MaxPuts == 6

\* The longest run list of a message given to parse_json on its own.
MaxRuns == 2

\* The longest action list of a document given to parse_json on its own.
MaxActions == 2

\* The longest thumbnail list of an emoji run given to run_to_element.
MaxCandidates == 3

(***************************************************************************)
(* Inputs: URLs of network events and response bodies.                     *)
(***************************************************************************)
Origin ==
    << "h", "t", "t", "p", "s", ":", "/", "/", "w", "w", "w", ".",
       "y", "o", "u", "t", "u", "b", "e", ".", "c", "o", "m", "/" >>

ChatApi ==
    << "y", "o", "u", "t", "u", "b", "e", "i", "/", "v", "1", "/",
       "l", "i", "v", "e", "_", "c", "h", "a", "t", "/" >>

\* "https://www.youtube.com/youtubei/v1/live_chat/get_live_chat"
CHAT_PREFIX ==
    Origin \o ChatApi
        \o << "g", "e", "t", "_", "l", "i", "v", "e", "_", "c", "h", "a", "t" >>

\* str::starts_with
StartsWith(s, prefix) ==
    Len(s) >= Len(prefix) /\ SubSeq(s, 1, Len(prefix)) = prefix

UrlPoll == CHAT_PREFIX \o << "?", "k", "e", "y", "=", "1" >>

UrlShort == Origin \o ChatApi \o << "g", "e", "t" >>

UrlSend ==
    Origin \o ChatApi
        \o << "s", "e", "n", "d", "_", "m", "e", "s", "s", "a", "g", "e" >>

UrlPage ==
    Origin \o << "l", "i", "v", "e", "_", "c", "h", "a", "t", "?", "v", "=", "x" >>

\* param.response.url of the events the browser delivers.
Urls == {UrlPoll, CHAT_PREFIX, UrlShort, UrlSend, UrlPage}

RunText(s) == JObj([text |-> JStr(s)])

Thumb(w, u) == JObj([width |-> JInt(w), url |-> JStr(u)])

RunEmoji(th) ==
    JObj([emoji |-> JObj([image |-> JObj([thumbnails |-> JArr(th)])])])

Action(runs) ==
    JObj([addChatItemAction |-> JObj([item |-> JObj(
        [liveChatTextMessageRenderer |-> JObj(
            [message |-> JObj([runs |-> JArr(runs)])])])])])

Doc(actions) ==
    JObj([continuationContents |-> JObj(
        [liveChatContinuation |-> JObj([actions |-> JArr(actions)])])])

\* A text cut off in the middle: not a JSON document.
BodyMalformed == <<Tok("{"), TStr("continuationContents"), Tok(":")>>

\* A well-formed document without the path to the action list.
BodyHeartbeat == ToTokens(JObj([responseContext |-> JObj(<<>>)]))

\* The action list is there, no action yields a comment.
BodyNoComment ==
    ToTokens(Doc(<<JObj([removeChatItemAction |-> JNull]),
                   Action(<<JObj([bold |-> JBool(TRUE)])>>)>>))

\* Two comments, with an action of another kind between them and
\* whitespace around the document.
BodyTwo ==
    <<WS>> \o ToTokens(Doc(<<Action(<<RunText("hi "),
                                      RunEmoji(<<Thumb(10, "e.png")>>)>>),
                             JObj([removeChatItemAction |-> JNull]),
                             Action(<<RunText("yo")>>)>>)) \o <<WS>>

\* data.body of the results fetch() gives.
Bodies == {<<>>, <<WS, WS>>, BodyMalformed, BodyHeartbeat, BodyNoComment, BodyTwo}

\* Result<GetResponseBodyReturnObject, failure::Error>
FetchOk(body) == [ok |-> TRUE, body |-> body]

FetchErr == [ok |-> FALSE, body |-> <<>>]

FetchResults == {FetchOk(b) : b \in Bodies} \cup {FetchErr}

\* Result of Window::emit.
EmitResults == BOOLEAN

(***************************************************************************)
(* State.                                                                  *)
(***************************************************************************)
VARIABLES
    clock,                  \* the value Instant::now() returns
    last_comment_fetch,     \* Mutex<Option<Instant>>: the Option
    comment_fetch_period,   \* Mutex<CyclicArray<5>>: the array
    webview,                \* Context.webview: Option<Window>
    locks,                  \* holder of each tokio Mutex: None, or Some(task
                            \* index), or Some(0) for the page-load callback
    tasks,                  \* the spawned on_comment tasks, in spawn order
    mainpc,                 \* position of the on_page_load callback
    epc,                    \* position of on_response on the event thread
    curUrl,                 \* param.response.url of the event being handled
    attempt,                \* iterations of 'poll completed in this call
    fetchCalls,             \* fetch() calls made by this on_response call
    sleepCalls,             \* thread::sleep calls made by this call
    lastResult,             \* the last fetch() result of this call
    responses,              \* network events delivered / bodies accepted
    outcomes,               \* how each delivered event ended, in order
    lastAverage,            \* result of the last direct average() call
    putLog,                 \* the samples put into comment_fetch_period, in order
    parseIn,                \* the document last given to parse_json
    parseOut,               \* what parse_json returned for it
    runIn,                  \* the run last given to run_to_element
    runOut                  \* what run_to_element returned for it

vars ==
    << clock, last_comment_fetch, comment_fetch_period, webview, locks, tasks,
       mainpc, epc, curUrl, attempt, fetchCalls, sleepCalls, lastResult, responses,
       outcomes, lastAverage, putLog, parseIn, parseOut, runIn, runOut >>

listenerVars == << last_comment_fetch, comment_fetch_period, webview, locks >>

correlatorVars ==
    << epc, curUrl, attempt, fetchCalls, sleepCalls, lastResult, outcomes >>

parserVars == << parseIn, parseOut, runIn, runOut >>

Init ==
    /\ clock = 0
    /\ last_comment_fetch = None
    /\ comment_fetch_period = CyclicArrayNew
    /\ webview = None
    /\ locks = [ts |-> None, win |-> None, wv |-> None]
    /\ tasks = <<>>
    /\ mainpc = "idle"
    /\ epc = "idle"
    /\ curUrl = <<>>
    /\ attempt = 0
    /\ fetchCalls = 0
    /\ sleepCalls = 0
    /\ lastResult = FetchErr
    /\ responses = 0
    /\ outcomes = <<>>
    /\ lastAverage = [panic |-> FALSE, d |-> 0]
    /\ putLog = <<>>
    /\ parseIn = None
    /\ parseOut = None
    /\ runIn = None
    /\ runOut = None

(***************************************************************************)
(* on_comment: one spawned task per accepted body.                         *)
(***************************************************************************)
\* The future `inner.on_comment(data.body)` as spawned: not yet polled.
NewTask(body) ==
    [pc |-> "start", json_str |-> body, comments |-> None, now |-> 0,
     elapsed |-> 0, normalize_duration |-> 0, sleep_time |-> 0, idx |-> 0,
     log |-> <<>>, cause |-> "none", ts_rank |-> 0, put_rank |-> 0]

\* rt.spawn(async move { inner.on_comment(data.body).await })
Spawn(body) == tasks' = Append(tasks, NewTask(body))

\* A panic unwinds the task: it ends, the runtime and the other tasks go on.
Panicked(t, cause) == [t EXCEPT !.pc = "panicked", !.cause = cause]

\* A local that is not read again is not kept: json_str after the parse,
\* now after the replace, elapsed after the put.
Parsed(t) == [t EXCEPT !.json_str = <<>>]

Replaced(t) == [t EXCEPT !.now = 0]

Sampled(t) == [t EXCEPT !.elapsed = 0]

\* A guard that is kept when the statement or block ends.
ReleaseNothing(m) == locks' = locks

Release(m) == locks' = [locks EXCEPT ![m] = None]

\* Mutex::lock().await resolves when the mutex is free.
Acquire(i, m, want, have) ==
    /\ tasks[i].pc = want
    /\ locks[m] = None
    /\ locks' = [locks EXCEPT ![m] = Some(i)]
    /\ tasks' = [tasks EXCEPT ![i].pc = have]
    /\ UNCHANGED << clock, last_comment_fetch, comment_fetch_period, webview,
                    mainpc, responses, correlatorVars, lastAverage,
                    putLog, parserVars >>

HasReplaced(t) == t.ts_rank > 0

HasPut(t) == t.put_rank > 0

\* The number of tasks that have replaced the timestamp.
ReplacedCount == Cardinality({j \in DOMAIN tasks : HasReplaced(tasks[j])})

\* The number of tasks that have put a sample into the window.
PutCount == Cardinality({j \in DOMAIN tasks : HasPut(tasks[j])})

\* Instant::now(): monotonic, so a reading not below the latest one.  The
\* clock is only looked at here, so the time that passed since the latest
\* reading is chosen at the reading.
InstantNow == clock..MaxClock

\* serde_json::from_str(..).unwrap(), parse_json, Instant::now().
Begin(i) ==
    LET t == tasks[i]
        raw == FromStr(t.json_str)
    IN  /\ t.pc = "start"
        /\ UNCHANGED << listenerVars, mainpc, responses, correlatorVars,
                        lastAverage,
                        putLog, parserVars >>
        /\ IF ~IsSome(raw)
           THEN /\ tasks' = [tasks EXCEPT ![i] = Panicked(Parsed(t), "unwrap")]
                /\ UNCHANGED clock
           ELSE LET comments == parse_json(raw[1])
                IN  IF ~IsSome(comments)
                    THEN /\ tasks' = [tasks EXCEPT ![i] =
                                         [Parsed(t) EXCEPT !.pc = "done"]]
                         /\ UNCHANGED clock
                    ELSE \E now \in InstantNow :
                            /\ clock' = now
                            /\ tasks' = [tasks EXCEPT ![i] =
                                  [Parsed(t) EXCEPT !.pc = "wantTs",
                                                    !.comments = comments,
                                                    !.now = now]]

AcquireTs(i) == Acquire(i, "ts", "wantTs", "haveTs")

\* Instant - Instant: the difference; with an earlier `now` the build
\* either saturates to zero (Rust >= 1.60) or panics (older std).
InstantSub(now, x) ==
    IF now >= x THEN {[panic |-> FALSE, d |-> now - x]}
    ELSE {[panic |-> FALSE, d |-> 0], [panic |-> TRUE, d |-> 0]}

\* .replace(now).map(|x| now - x).unwrap_or(DEFAULT_FETCH_PERIOD)
ElapsedFromLastFetch(prev, now) ==
    IF IsSome(prev) THEN InstantSub(now, prev[1])
    ELSE {[panic |-> FALSE, d |-> DEFAULT_FETCH_PERIOD]}

\* last_comment_fetch.lock().await.replace(now): the guard is a temporary
\* of the statement and is dropped at its end.
ReplaceTs(i) ==
    LET t == tasks[i]
    IN  /\ t.pc = "haveTs"
        /\ \E e \in ElapsedFromLastFetch(last_comment_fetch, t.now) :
              tasks' = [tasks EXCEPT ![i] =
                  IF e.panic
                  THEN [Panicked(Replaced(t), "instant_sub")
                            EXCEPT !.ts_rank = ReplacedCount + 1]
                  ELSE [Replaced(t) EXCEPT !.pc = "wantWin", !.elapsed = e.d,
                                           !.ts_rank = ReplacedCount + 1]]
        /\ last_comment_fetch' = Some(t.now)
        /\ Release("ts")
        /\ UNCHANGED << clock, comment_fetch_period, webview, mainpc,
                        responses, correlatorVars, lastAverage,
                        putLog, parserVars >>

AcquireWin(i) == Acquire(i, "win", "wantWin", "haveWin")

\* comment_fetch_period.put(elapsed); average(); the guard is dropped at the
\* end of the block.
PutAverage(i) ==
    LET t == tasks[i]
        w == put(comment_fetch_period, t.elapsed)
        a == average(w)
    IN  /\ t.pc = "haveWin"
        /\ comment_fetch_period' = w
        /\ tasks' = [tasks EXCEPT ![i] =
              IF a.panic
              THEN [Panicked(Sampled(t), "average")
                        EXCEPT !.put_rank = PutCount + 1]
              ELSE [Sampled(t) EXCEPT !.pc = "wantWv",
                                      !.normalize_duration = a.d,
                                      !.put_rank = PutCount + 1]]
        /\ putLog' = Append(putLog, t.elapsed)
        /\ Release("win")
        /\ UNCHANGED << clock, last_comment_fetch, webview, mainpc, responses,
                        correlatorVars, lastAverage, parserVars >>

\* self.ctx.webview.lock().await in emit
AcquireWv(i) == Acquire(i, "wv", "wantWv", "haveWv")

\* Stats { comments_per_sec }: the quotient len / normalize_duration, kept
\* as the pair of its terms.
Stats(len, d) == [comments_per_sec |-> <<len, d>>]

\* normalize_duration / (comments.len() as u32)
SleepTimeOfOneLoop(normalize_duration, len) ==
    DurationDiv(normalize_duration, len)

\* The loop over comments.into_iter().rev().
LoopItemReversed(comments, idx) == comments[Len(comments) + 1 - idx]

\* The item the `for c in comments` loop hands out at its idx-th turn.
LoopItem(comments, idx) == comments[idx]

LogEntry(kind, event, payload, d) ==
    [kind |-> kind, event |-> event, payload |-> payload, d |-> d]

\* What follows an emit that returned: after "stats" the per-item delay is
\* computed and the loop entered; after a "comment" the task sleeps.
AfterEmit(t) ==
    IF t.idx = 0
    THEN LET s == SleepTimeOfOneLoop(t.normalize_duration, Len(t.comments[1]))
         IN  IF s.panic THEN Panicked(t, "div_zero")
             ELSE [t EXCEPT !.pc = "wantWv", !.sleep_time = s.d, !.idx = 1]
    ELSE [t EXCEPT !.pc = "sleep"]

\* emit(event, payload) with the webview guard held; the guard is dropped
\* when emit returns or unwinds.
Emit(i) ==
    LET t == tasks[i]
        event == IF t.idx = 0 THEN "stats" ELSE "comment"
        payload == IF t.idx = 0
                   THEN Stats(Len(t.comments[1]), t.normalize_duration)
                   ELSE LoopItem(t.comments[1], t.idx)
        logged(kind) ==
            [t EXCEPT !.log = Append(t.log, LogEntry(kind, event, payload, 0))]
    IN  /\ t.pc = "haveWv"
        /\ \/ /\ webview = None
              /\ tasks' = [tasks EXCEPT ![i] = AfterEmit(logged("skip"))]
           \/ /\ webview # None
              /\ \E ok \in EmitResults :
                    tasks' = [tasks EXCEPT ![i] =
                        IF ok THEN AfterEmit(logged("emit"))
                        ELSE Panicked(t, "emit")]
        /\ Release("wv")
        /\ UNCHANGED << clock, last_comment_fetch, comment_fetch_period,
                        webview, mainpc, responses, correlatorVars,
                        lastAverage,
                        putLog, parserVars >>

\* tokio::time::sleep(sleep_time_of_one_loop).await has elapsed.
Wake(i) ==
    LET t == tasks[i]
        slept == [t EXCEPT !.log =
                    Append(t.log, LogEntry("sleep", "", Stats(0, 0), t.sleep_time))]
    IN  /\ t.pc = "sleep"
        /\ tasks' = [tasks EXCEPT ![i] =
              IF t.idx >= Len(t.comments[1])
              THEN [slept EXCEPT !.pc = "done"]
              ELSE [slept EXCEPT !.pc = "wantWv", !.idx = t.idx + 1]]
        /\ UNCHANGED << clock, listenerVars, mainpc, responses, correlatorVars,
                        lastAverage,
                        putLog, parserVars >>

(***************************************************************************)
(* main: the on_page_load callback.                                        *)
(***************************************************************************)
\* tauri calls on_page_load: block_on(async { webview.lock().await ... })
PageLoad ==
    /\ mainpc = "idle"
    /\ mainpc' = "wantWv"
    /\ UNCHANGED << clock, listenerVars, tasks, responses, correlatorVars,
                    lastAverage,
                    putLog, parserVars >>

PageLoadAcquire ==
    /\ mainpc = "wantWv"
    /\ locks.wv = None
    /\ locks' = [locks EXCEPT !.wv = Some(0)]
    /\ mainpc' = "haveWv"
    /\ UNCHANGED << clock, last_comment_fetch, comment_fetch_period, webview,
                    tasks, responses, correlatorVars, lastAverage,
                    putLog, parserVars >>

\* *guard = Some(window)
PageLoadSet ==
    /\ mainpc = "haveWv"
    /\ webview' = Some("window")
    /\ Release("wv")
    /\ mainpc' = "idle"
    /\ UNCHANGED << clock, last_comment_fetch, comment_fetch_period, tasks,
                    responses, correlatorVars, lastAverage,
                    putLog, parserVars >>

(***************************************************************************)
(* on_response: the callback on the browser's event thread.                *)
(***************************************************************************)
\* The test with receiver and argument exchanged.
IsRelevantSwapped(url) == StartsWith(CHAT_PREFIX, url)

\* param.response.url.starts_with("https://.../get_live_chat")
IsRelevant(url) == StartsWith(url, CHAT_PREFIX)

\* The loop over the inclusive range 0..=POLL_COUNT.
LoopContinuesInclusive(done) == done <= POLL_COUNT

\* for _ in 0..POLL_COUNT: another iteration after `done` completed ones.
LoopContinues(done) == done < POLL_COUNT

\* The match with an error treated like an empty body.
MatchArmRetryOnError(r) ==
    IF r.ok /\ ~TrimIsEmpty(r.body) THEN "spawn" ELSE "retry"

\* The arm of `match fetch()` a result takes.
MatchArm(r) ==
    IF r.ok THEN (IF TrimIsEmpty(r.body) THEN "retry" ELSE "spawn") ELSE "error"

\* The hand-off of the trimmed body.
HandedBodyTrimmed(data) == Trim(data.body)

\* The string moved into on_comment: data.body.
HandedBody(data) == data.body

\* on_response returns to the event loop.
Return(outcome) ==
    /\ epc' = "idle"
    /\ outcomes' = Append(outcomes, outcome)

\* The event loop calls on_response(param, fetch).
OnResponse(url) ==
    /\ epc = "idle"
    /\ responses < MaxResponses
    /\ responses' = responses + 1
    /\ curUrl' = url
    /\ attempt' = 0
    /\ fetchCalls' = 0
    /\ sleepCalls' = 0
    /\ IF ~IsRelevant(url) THEN Return("ignored")
       ELSE IF LoopContinues(0) THEN epc' = "sleep" /\ UNCHANGED outcomes
       ELSE Return("exhausted")
    /\ UNCHANGED << clock, listenerVars, tasks, mainpc, lastResult,
                    lastAverage,
                    putLog, parserVars >>

\* std::thread::sleep(POLL_INTERVAL)
PollSleep ==
    /\ epc = "sleep"
    /\ sleepCalls' = sleepCalls + 1
    /\ epc' = "fetch"
    /\ UNCHANGED << clock, listenerVars, tasks, mainpc, curUrl, attempt,
                    fetchCalls, lastResult, responses, outcomes, lastAverage,
                    putLog, parserVars >>

\* match fetch() { ... }
PollFetch(r) ==
    /\ epc = "fetch"
    /\ fetchCalls' = fetchCalls + 1
    /\ lastResult' = r
    /\ \/ /\ MatchArm(r) = "retry"
          /\ attempt' = attempt + 1
          /\ IF LoopContinues(attempt + 1)
             THEN epc' = "sleep" /\ UNCHANGED outcomes
             ELSE Return("exhausted")
          /\ UNCHANGED tasks
       \/ /\ MatchArm(r) = "spawn"
          /\ Spawn(HandedBody(r))
          /\ Return("spawned")
          /\ UNCHANGED attempt
       \/ /\ MatchArm(r) = "error"
          /\ Return("error")
          /\ UNCHANGED << attempt, tasks >>
    /\ UNCHANGED << clock, listenerVars, mainpc, curUrl, sleepCalls,
                    responses, lastAverage,
                    putLog, parserVars >>

\* The hand-off of on_response seen from the listener: a body with
\* non-empty trimmed content is moved into a new on_comment task.
Handoff(body) ==
    /\ epc = "idle"
    /\ responses < MaxResponses
    /\ MatchArm(FetchOk(body)) = "spawn"
    /\ responses' = responses + 1
    /\ Spawn(HandedBody(FetchOk(body)))
    /\ UNCHANGED << clock, listenerVars, mainpc, correlatorVars, lastAverage,
                    putLog, parserVars >>

(***************************************************************************)
(* CyclicArray used on its own.                                            *)
(***************************************************************************)
Samples == 0..MaxSample

WindowPut(d) ==
    /\ Len(putLog) < MaxPuts
    /\ comment_fetch_period' = put(comment_fetch_period, d)
    /\ putLog' = Append(putLog, d)
    /\ UNCHANGED << clock, last_comment_fetch, webview, locks, tasks, mainpc,
                    responses, correlatorVars, lastAverage, parserVars >>

WindowAverage ==
    /\ lastAverage' = average(comment_fetch_period)
    /\ UNCHANGED << clock, listenerVars, tasks, mainpc, responses,
                    correlatorVars, putLog, parserVars >>

(***************************************************************************)
(* parse_json used on its own.  A document is described by its shape: the  *)
(* part of the required path it has, and for each action its kind and the  *)
(* shape of each of its runs.                                              *)
(***************************************************************************)
SeqsUpTo(S, n) == UNION {[1..k -> S] : k \in 0..n}

RunShapes == {"text", "emoji", "other"}

\* A run of the shape: a text run, an emoji run with one thumbnail, a run
\* that is neither.
RunOf(shape) ==
    CASE shape = "text"  -> RunText("hi ")
      [] shape = "emoji" -> RunEmoji(<<Thumb(10, "e.png")>>)
      [] OTHER           -> JObj([bold |-> JBool(TRUE)])

ActionShapes ==
    {[kind |-> "message", runs |-> r] : r \in SeqsUpTo(RunShapes, MaxRuns)}
        \cup {[kind |-> "other", runs |-> <<>>]}

\* An addChatItemAction with a text message, or an action of another kind.
ActionOf(a) ==
    IF a.kind = "message"
    THEN Action([i \in DOMAIN a.runs |-> RunOf(a.runs[i])])
    ELSE JObj([removeChatItemAction |-> JNull])

PathShapes == {"full", "heartbeat", "cut", "not_array"}

DocShapes ==
    {[path |-> "full", acts |-> a] : a \in SeqsUpTo(ActionShapes, MaxActions)}
        \cup {[path |-> p, acts |-> <<>>] : p \in PathShapes \ {"full"}}

\* The serde_json::Value of the shape.
DocOf(d) ==
    CASE d.path = "full"      -> Doc([i \in DOMAIN d.acts |-> ActionOf(d.acts[i])])
      [] d.path = "heartbeat" -> JObj([responseContext |-> JObj(<<>>)])
      [] d.path = "cut"       ->
            JObj([continuationContents |-> JObj([liveChatContinuation |-> JNull])])
      [] OTHER                ->
            JObj([continuationContents |-> JObj(
                [liveChatContinuation |-> JObj([actions |-> JStr("none")])])])

\* Self::parse_json(&raw): one call, on a document of any shape.
ParseJson ==
    /\ parseIn = None
    /\ \E d \in DocShapes :
          /\ parseIn' = Some(d)
          /\ parseOut' = parse_json(DocOf(d))
    /\ UNCHANGED << clock, listenerVars, tasks, mainpc, responses,
                    correlatorVars, lastAverage, putLog, runIn, runOut >>

(***************************************************************************)
(* run_to_element used on its own.  A run is described by its kind and,    *)
(* for an emoji run, by the shape of each image candidate: its width       *)
(* member (absent, an integer, or a value of another type) and whether it  *)
(* has a url.                                                              *)
(***************************************************************************)
\* The url of the candidate at a position: one per position.
UrlAt(i) == << "a", "b", "c", "d", "e", "f" >>[i]

CandidateShapes ==
    {[w |-> "absent", n |-> 0, url |-> u] : u \in BOOLEAN}
        \cup {[w |-> "int", n |-> n, url |-> u] : n \in {100, 200}, u \in BOOLEAN}
        \cup {[w |-> "text", n |-> 0, url |-> u] : u \in BOOLEAN}

\* The thumbnail object of the shape at position i.
CandidateOf(c, i) ==
    JObj([k \in (IF c.w = "absent" THEN {} ELSE {"width"})
                    \cup (IF c.url THEN {"url"} ELSE {}) |->
            IF k = "url" THEN JStr(UrlAt(i))
            ELSE IF c.w = "int" THEN JInt(c.n) ELSE JStr("wide")])

RunInputs ==
    {[kind |-> "emoji", cands |-> c] :
        c \in SeqsUpTo(CandidateShapes, MaxCandidates)}
        \cup {[kind |-> k, cands |-> <<>>] :
                k \in {"text", "text_number", "emoji_bare", "neither"}}

\* The serde_json::Value of the run.
RunValue(r) ==
    CASE r.kind = "emoji" ->
            RunEmoji([i \in DOMAIN r.cands |-> CandidateOf(r.cands[i], i)])
      [] r.kind = "text"        -> RunText("hi ")
      [] r.kind = "text_number" -> JObj([text |-> JInt(1)])
      [] r.kind = "emoji_bare"  -> JObj([emoji |-> JObj(<<>>), text |-> JStr("x")])
      [] OTHER                  -> JObj([bold |-> JBool(TRUE)])

\* Self::run_to_element(run): one call, on a run of any shape.
RunToElement ==
    /\ runIn = None
    /\ \E r \in RunInputs :
          /\ runIn' = Some(r)
          /\ runOut' = run_to_element(RunValue(r))
    /\ UNCHANGED << clock, listenerVars, tasks, mainpc, responses,
                    correlatorVars, lastAverage, putLog, parseIn, parseOut >>

(***************************************************************************)
(* Specifications.                                                         *)
(***************************************************************************)
\* The listener: accepted bodies, their on_comment tasks, the page load.
Next ==
    \/ \E body \in Bodies : Handoff(body)
    \/ \E i \in DOMAIN tasks : Begin(i)
    \/ \E i \in DOMAIN tasks : AcquireTs(i)
    \/ \E i \in DOMAIN tasks : ReplaceTs(i)
    \/ \E i \in DOMAIN tasks : AcquireWin(i)
    \/ \E i \in DOMAIN tasks : PutAverage(i)
    \/ \E i \in DOMAIN tasks : AcquireWv(i)
    \/ \E i \in DOMAIN tasks : Emit(i)
    \/ \E i \in DOMAIN tasks : Wake(i)
    \/ PageLoad
    \/ PageLoadAcquire
    \/ PageLoadSet

Spec == Init /\ [][Next]_vars

\* A step of the on_comment task i that takes a lock, or that it makes
\* while it holds one and that gives the lock back.
LockStep(i) ==
    /\ i \in DOMAIN tasks
    /\ \/ AcquireTs(i) \/ ReplaceTs(i) \/ AcquireWin(i) \/ PutAverage(i)
       \/ AcquireWv(i) \/ Emit(i)

\* A step of the on_page_load callback once it is called.
OnPageLoad == PageLoadAcquire \/ PageLoadSet

\* The scheduling of the listener.  The runtime polls every task that can
\* make progress; a tokio Mutex hands the lock to its waiters in the order
\* they asked, so a waiter is not passed over for ever.  A task or callback
\* has one possible step at each position: a step made with a lock held
\* stays possible until taken (for it the strong fairness below is weak
\* fairness), an acquisition is possible whenever the mutex is free.  The
\* arrival of bodies and of page loads is not under the program's control
\* and has no fairness; nothing is assumed of a task before its first lock
\* request or while it sleeps.
Fairness ==
    /\ \A i \in 1..MaxResponses : SF_vars(LockStep(i))
    /\ SF_vars(OnPageLoad)

SpecFair == Spec /\ Fairness

\* The event thread: on_response step by step; the spawned tasks wait.
NextCorrelator ==
    \/ \E url \in Urls : OnResponse(url)
    \/ PollSleep
    \/ \E r \in FetchResults : PollFetch(r)

SpecCorrelator == Init /\ [][NextCorrelator]_vars

\* A CyclicArray<5> under any sequence of put and average calls.
NextWindow ==
    \/ \E d \in Samples : WindowPut(d)
    \/ WindowAverage

SpecWindow == Init /\ [][NextWindow]_vars

\* parse_json applied to any document of the shapes above.
NextParser == ParseJson

SpecParser == Init /\ [][NextParser]_vars

\* run_to_element applied to any run of the shapes above.
NextRun == RunToElement

SpecRun == Init /\ [][NextRun]_vars

(***************************************************************************)
(* Properties of on_response (checked under SpecCorrelator).               *)
(***************************************************************************)
Last(s) == s[Len(s)]

\* on_response has returned from its latest call with this outcome.
ReturnedWith(outcome) ==
    epc = "idle" /\ outcomes # <<>> /\ Len(outcomes) = responses
        /\ Last(outcomes) = outcome

IsSpawned(o) == o = "spawned"

\* A step of the event thread that calls fetch().
FetchStep == fetchCalls' = fetchCalls + 1

\* A step in which the event loop delivers an event to on_response.
EnterStep == responses' = responses + 1

\* C1: on_response never sleeps and never calls fetch() on the
\* event-delivery thread between its entry and its return.
C1_NoSleepNoFetchInCallback == sleepCalls = 0 /\ fetchCalls = 0

\* C3: a fetch result with an empty trimmed body hands nothing off and
\* leads to another attempt (while the loop has iterations left); the first
\* result with a non-empty body ends the call at once with exactly one new,
\* not yet started task that holds exactly that body; fetch() is only
\* called from inside the polling loop, never after the return; and every
\* task is the single hand-off of one returned call.
C3_NonEmptyBodyHandedOffOnce ==
    /\ [](Len(tasks) = Len(SelectSeq(outcomes, IsSpawned)))
    /\ [][FetchStep =>
            /\ epc = "fetch"
            /\ (lastResult'.ok /\ TrimIsEmpty(lastResult'.body)) =>
                  /\ tasks' = tasks
                  /\ attempt' = attempt + 1
                  /\ (attempt' < POLL_COUNT => epc' = "sleep")
            /\ (lastResult'.ok /\ ~TrimIsEmpty(lastResult'.body)) =>
                  /\ tasks' = Append(tasks, NewTask(lastResult'.body))
                  /\ epc' = "idle"
                  /\ outcomes' = Append(outcomes, "spawned")]_vars

\* C3 witness: a call returned after empty results and then a body with
\* whitespace around the document, which the new task holds unchanged.
C3_Witness ==
    /\ ReturnedWith("spawned")
    /\ fetchCalls >= 2
    /\ lastResult = FetchOk(BodyTwo)
    /\ Last(tasks).json_str = BodyTwo
    /\ Last(tasks).pc = "start"

\* C4: a fetch() error ends the call at once: nothing is handed off, the
\* listener state and the tasks are unchanged, the call is recorded as
\* abandoned; and after it the event loop can deliver the next event, for
\* which a relevant URL starts the polling afresh.
C4_FetchErrorAbandonsResponse ==
    /\ [][(FetchStep /\ ~lastResult'.ok) =>
            /\ epc' = "idle"
            /\ tasks' = tasks
            /\ outcomes' = Append(outcomes, "error")
            /\ UNCHANGED << listenerVars, clock >>]_vars
    /\ [][(EnterStep /\ outcomes # <<>> /\ Last(outcomes) = "error"
                /\ StartsWith(curUrl', CHAT_PREFIX)) =>
            epc' = "sleep" /\ fetchCalls' = 0 /\ attempt' = 0]_vars
    /\ []((ReturnedWith("error") /\ responses < MaxResponses)
            => ENABLED OnResponse(UrlPoll))

\* C4 witness: the first response was abandoned on an error, the second
\* one was handed off.
C4_Witness ==
    /\ outcomes = <<"error", "spawned">>
    /\ Len(tasks) = 1
    /\ epc = "idle"

\* C5: one call makes at most POLL_COUNT fetch() calls (and as many
\* sleeps); when all of them gave an empty body the call has returned
\* after exactly POLL_COUNT calls and handed nothing off.
C5_RetryBudget ==
    /\ fetchCalls <= POLL_COUNT
    /\ sleepCalls <= POLL_COUNT
    /\ sleepCalls - fetchCalls \in {0, 1}
    /\ ReturnedWith("exhausted") =>
          /\ fetchCalls = POLL_COUNT
          /\ lastResult.ok /\ TrimIsEmpty(lastResult.body)
          /\ Len(tasks) = Len(SelectSeq(outcomes, IsSpawned))

\* C5 witness: a call that used up its budget on empty bodies.
C5_Witness == ReturnedWith("exhausted") /\ fetchCalls = POLL_COUNT /\ tasks = <<>>

\* C6: an event whose URL does not start with the prefix makes on_response
\* return in the same step: no fetch, no sleep, no task, no state change.
C6_IrrelevantUrlIgnored ==
    [][(EnterStep /\ ~StartsWith(curUrl', CHAT_PREFIX)) =>
            /\ epc' = "idle"
            /\ fetchCalls' = 0
            /\ sleepCalls' = 0
            /\ tasks' = tasks
            /\ outcomes' = Append(outcomes, "ignored")
            /\ UNCHANGED << listenerVars, clock >>]_vars

\* C6 witness: an event for a URL that is a proper prefix of the endpoint
\* prefix was ignored.
C6_Witness ==
    ReturnedWith("ignored") /\ curUrl = UrlShort /\ fetchCalls = 0 /\ tasks = <<>>

(***************************************************************************)
(* Properties of CyclicArray (checked under SpecWindow).                   *)
(***************************************************************************)
\* C9: average() never faults: with no populated slot it gives a value that
\* signals the undefined condition.
C9_AverageNeverFaults == ~lastAverage.panic

(***************************************************************************)
(* Properties of on_comment (checked under Spec).                          *)
(***************************************************************************)
Tasks == {tasks[i] : i \in DOMAIN tasks}

\* The task has replaced the timestamp and not yet put its sample.
BetweenReplaceAndPut(t) == t.pc \in {"wantWin", "haveWin"}

\* C2: replace of the timestamp and put into the window are one atomic
\* step: no second invocation is between its replace and its put while
\* another one is, and the samples enter the window in the order of the
\* timestamp updates that produced them.
C2_TimestampAndWindowAtomic ==
    /\ Cardinality({i \in DOMAIN tasks : BetweenReplaceAndPut(tasks[i])}) <= 1
    /\ \A i, j \in DOMAIN tasks :
          (HasPut(tasks[i]) /\ HasPut(tasks[j])
              /\ tasks[i].ts_rank < tasks[j].ts_rank)
            => tasks[i].put_rank < tasks[j].put_rank

\* The batch of the task was parsed and has no comment.
EmptyBatch(t) == t.comments = Some(<<>>)

IsCommentEntry(e) == e.event = "comment"

\* C7: an invocation whose parsed batch has length 0 does not fault on the
\* division and emits no comment.
C7_EmptyBatchIsNoOp ==
    \A t \in Tasks :
        EmptyBatch(t) =>
            t.cause # "div_zero" /\ SelectSeq(t.log, IsCommentEntry) = <<>>

\* C10: no invocation of on_comment ends in a fault, whatever its body.
C10_NoFault == \A t \in Tasks : t.pc # "panicked"

\* C8: after the stats event the log of a task alternates between a
\* comment event and a sleep; the k-th comment event carries the k-th
\* comment of the batch (delivered to the webview, or skipped while the
\* webview is absent), every sleep lasts normalize_duration / L, and a
\* task that ran to its end has gone through all L comments.
C8_BatchEmittedInOrder ==
    \A t \in Tasks :
        IsSome(t.comments) /\ Len(t.comments[1]) >= 1 =>
            LET batch == t.comments[1]
                L == Len(batch)
            IN  /\ Len(t.log) <= 1 + 2 * L
                /\ \A j \in 2..Len(t.log) :
                      IF j % 2 = 0
                      THEN /\ t.log[j].kind \in {"emit", "skip"}
                           /\ t.log[j].event = "comment"
                           /\ t.log[j].payload = batch[j \div 2]
                      ELSE /\ t.log[j].kind = "sleep"
                           /\ t.log[j].d = t.normalize_duration \div L
                /\ t.pc = "done" => Len(t.log) = 1 + 2 * L
                /\ t.pc \in {"wantWv", "haveWv"} /\ t.idx >= 1
                      => Len(t.log) = 2 * t.idx - 1
                /\ t.pc = "sleep" => Len(t.log) = 2 * t.idx

\* The task delivered exactly the first comment of a batch of two to the
\* webview and has not yet delivered the second.
MidBatch(t) ==
    /\ IsSome(t.comments) /\ Len(t.comments[1]) = 2
    /\ t.pc \in {"sleep", "wantWv"}
    /\ Len(t.log) \in {2, 3}
    /\ t.log[2].kind = "emit"
    /\ t.log[2].payload = t.comments[1][1]

\* The task has delivered both comments of a batch of two, in order, with
\* a sleep of half the pacing duration after each.
WholeBatch(t) ==
    /\ IsSome(t.comments) /\ Len(t.comments[1]) = 2
    /\ t.pc = "done"
    /\ t.log[2].kind = "emit" /\ t.log[4].kind = "emit"
    /\ t.log[2].payload # t.log[4].payload
    /\ t.log[3].d = t.normalize_duration \div 2
    /\ t.log[3].d < t.normalize_duration

\* C8 witness: one task has finished its batch of two while another one is
\* in the middle of its own: their emissions interleaved.
C8_Witness ==
    \E i, j \in DOMAIN tasks :
        i # j /\ MidBatch(tasks[i]) /\ WholeBatch(tasks[j])

(***************************************************************************)
(* Properties of emit (checked under Spec).                                *)
(***************************************************************************)
\* The step in which the emit call of task i returns or unwinds.
EmitAttempt(i) == tasks[i].pc = "haveWv" /\ tasks'[i].pc # "haveWv"

\* C11: every emit attempt ends with the webview lock free again; while the
\* webview is absent the event is skipped and reported once and nothing is
\* kept to be sent later; and no emit attempt ends the task with a fault.
C11_EmitToleratesWebview ==
    [][\A i \in DOMAIN tasks :
          EmitAttempt(i) =>
            /\ locks'.wv = None
            /\ webview = None =>
                  /\ tasks'[i].log = Append(tasks[i].log, Last(tasks'[i].log))
                  /\ Last(tasks'[i].log).kind = "skip"
                  /\ webview' = None
            /\ tasks'[i].cause # "emit"]_vars

(***************************************************************************)
(* Properties of the pacing duration (checked under Spec).                 *)
(***************************************************************************)
\* The first accepted call: the one whose replace found no timestamp.
IsFirstCall(t) == t.ts_rank = 1

\* The task has computed its pacing duration (the block of lines 191-209).
HasDuration(t) == HasPut(t) /\ t.cause # "average"

\* C12: the pacing duration of the first accepted call is the default
\* period, whatever the clock shows and whatever runs concurrently.
C12_FirstCallUsesDefault ==
    \A t \in Tasks :
        IsFirstCall(t) /\ HasDuration(t)
            => t.normalize_duration = DEFAULT_FETCH_PERIOD

(***************************************************************************)
(* Properties of CyclicArray::average and put (checked under SpecWindow).  *)
(***************************************************************************)
\* The slots (indexed from 1) that hold a sample other than Duration::ZERO.
PopulatedSlots(self) == {i \in 1..N : self.value[i] # 0}

\* The sum of the slots of f with an index in S.
RECURSIVE SumOver(_, _)
SumOver(f, S) ==
    IF S = {} THEN 0
    ELSE LET i == CHOOSE x \in S : TRUE IN f[i] + SumOver(f, S \ {i})

\* The quotient the claim names: populated sum over populated count.
PopulatedMean(self) ==
    SumOver(self.value, PopulatedSlots(self))
        \div Cardinality(PopulatedSlots(self))

\* C13: with at least one populated slot, average() returns without a
\* fault the sum of the populated slots divided by their number (durations
\* are whole ticks, the quotient is truncated as Duration / u32 truncates);
\* after the puts 1, 2, 3 into a fresh array it returns 2.  Stated of the
\* array in every reachable state and of the result of every average() call
\* that changed the last result.
C13_AverageOverPopulated ==
    /\ [](PopulatedSlots(comment_fetch_period) # {} =>
            average(comment_fetch_period) =
                [panic |-> FALSE, d |-> PopulatedMean(comment_fetch_period)])
    /\ [](putLog = <<1, 2, 3>> => average(comment_fetch_period).d = 2)
    /\ [][(lastAverage' # lastAverage
                /\ PopulatedSlots(comment_fetch_period) # {}) =>
            lastAverage' =
                [panic |-> FALSE, d |-> PopulatedMean(comment_fetch_period)]]_vars

\* C13 witness: after the puts 1, 2, 3 (two slots empty) average() gave 2.
C13_Witness ==
    /\ putLog = <<1, 2, 3>>
    /\ comment_fetch_period.value = <<1, 2, 3, 0, 0>>
    /\ lastAverage = [panic |-> FALSE, d |-> 2]

(***************************************************************************)
(* Properties of parse_json (checked under SpecParser).                    *)
(***************************************************************************)
\* The element a run of the shape stands for, if any.
ElementOf(shape) ==
    CASE shape = "text"  -> Some(Text("hi "))
      [] shape = "emoji" -> Some(Emoji("e.png"))
      [] OTHER           -> None

\* The positions of the runs that stand for an element.
ElementRuns(runs) == {k \in DOMAIN runs : IsSome(ElementOf(runs[k]))}

\* A valid comment: a text message with at least one such run.
IsValidComment(a) == a.kind = "message" /\ ElementRuns(a.runs) # {}

\* The number of members of S up to and including i.
RankIn(S, i) == Cardinality({j \in S : j <= i})

\* The elements are those of the runs that stand for one, in run order.
ElementsInRunOrder(elements, runs) ==
    /\ Len(elements) = Cardinality(ElementRuns(runs))
    /\ \A k \in ElementRuns(runs) :
          elements[RankIn(ElementRuns(runs), k)] = ElementOf(runs[k])[1]

\* C14: for a document with the required path parse_json returns a batch
\* with one comment per valid comment of the action list and no other, in
\* action order, each with its elements in run order; actions of another
\* kind and messages without an element are left out.
C14_BatchIsValidCommentsInOrder ==
    (IsSome(parseIn) /\ parseIn[1].path = "full") =>
        LET acts == parseIn[1].acts
            valid == {i \in DOMAIN acts : IsValidComment(acts[i])}
        IN  /\ IsSome(parseOut)
            /\ Len(parseOut[1]) = Cardinality(valid)
            /\ \A i \in valid :
                  ElementsInRunOrder(parseOut[1][RankIn(valid, i)].elements,
                                     acts[i].runs)

\* C14 witness: a message without an element was left out and the message
\* after it, an emoji followed by a text, is the only comment of the batch.
C14_Witness ==
    /\ IsSome(parseIn)
    /\ parseIn[1].path = "full"
    /\ parseIn[1].acts =
          << [kind |-> "message", runs |-> <<"other">>],
             [kind |-> "message", runs |-> <<"emoji", "text">>] >>
    /\ parseOut = Some(<<[elements |-> <<Emoji("e.png"), Text("hi ")>>]>>)

(***************************************************************************)
(* Properties of run_to_element (checked under SpecRun).                   *)
(***************************************************************************)
\* The candidates that declare a width (an integer, as the feed gives it).
Declaring(c) == {i \in DOMAIN c : c[i].w = "int"}

\* Those of them with the maximum declared width.
Widest(c) ==
    {i \in Declaring(c) : \A j \in Declaring(c) : c[j].n <= c[i].n}

\* The candidates the claim lets an emoji run resolve to.
Eligible(c) ==
    IF Len(c) = 0 THEN {} ELSE IF Len(c) = 1 THEN {1} ELSE Widest(c)

\* The element made of the candidate at position i: its url, when it has
\* one.
ElementAt(c, i) == IF c[i].url THEN Some(Emoji(UrlAt(i))) ELSE None

\* C15: an emoji run with no candidate gives no element; with one
\* candidate it resolves to that candidate, with or without a width; with
\* several it resolves to a candidate of maximum declared width among the
\* ones that declare an integer width (a candidate with no width member,
\* or with one of another type, is never chosen), and to no element when
\* none declares one.  The element is the url of the chosen candidate.
C15_EmojiResolvesToWidest ==
    (IsSome(runIn) /\ runIn[1].kind = "emoji") =>
        LET c == runIn[1].cands
        IN  IF Eligible(c) = {} THEN runOut = None
            ELSE \E i \in Eligible(c) : runOut = ElementAt(c, i)

\* C15 witness: of three candidates, widths 100, none and 200, the third
\* was chosen.
C15_Witness ==
    /\ IsSome(runIn)
    /\ runIn[1].kind = "emoji"
    /\ runIn[1].cands =
          << [w |-> "int", n |-> 100, url |-> TRUE],
             [w |-> "absent", n |-> 0, url |-> TRUE],
             [w |-> "int", n |-> 200, url |-> TRUE] >>
    /\ runOut = Some(Emoji("c"))

(***************************************************************************)
(* Properties of the timestamp and the window in on_comment (under Spec).  *)
(***************************************************************************)
\* C16: the stored timestamp never decreases: every replace stores a time
\* that is not earlier than the one it replaces (so every elapsed sample is
\* the difference of a later and an earlier reading).
C16_TimestampNeverDecreases ==
    [][(IsSome(last_comment_fetch) /\ IsSome(last_comment_fetch')) =>
            last_comment_fetch'[1] >= last_comment_fetch[1]]_vars

\* C17: no invocation computes the average over a window without a
\* populated slot: the average of line 207 never faults.
C17_AverageDefinedInOnComment == \A t \in Tasks : t.cause # "average"

(***************************************************************************)
(* Properties of CyclicArray::put (checked under SpecWindow).              *)
(***************************************************************************)
\* The slot (indexed from 1) the p-th put of a fresh array writes.
SlotOfPut(p) == ((p - 1) % N) + 1

\* The puts whose samples are the min(k, N) most recent of k puts.
RecentPuts(k) == {p \in 1..k : p > k - N}

\* C18: after k puts the cursor is k mod N, within 0..N-1; the window
\* holds the min(k, N) most recent samples, each in the slot of its put,
\* and zero in the slots never written; and each put writes the sample to
\* the slot at the cursor, leaves the other slots alone and advances the
\* cursor by one, wrapping to 0.
C18_RingOverwritesOldest ==
    /\ [](LET k == Len(putLog)
               self == comment_fetch_period
           IN  /\ self.current_index = k % N
               /\ self.current_index \in 0..(N - 1)
               /\ \A p \in RecentPuts(k) : self.value[SlotOfPut(p)] = putLog[p]
               /\ \A j \in 1..N : j > k => self.value[j] = 0)
    /\ [][putLog' # putLog =>
            LET c == comment_fetch_period.current_index
            IN  /\ comment_fetch_period'.value[c + 1] = Last(putLog')
                /\ \A j \in 1..N :
                      j # c + 1 => comment_fetch_period'.value[j]
                                      = comment_fetch_period.value[j]
                /\ comment_fetch_period'.current_index = (c + 1) % N]_vars

\* C18 witness: six puts into the array of five slots: the sixth sample
\* replaced the first, the others are in place, the cursor is at 1.
C18_Witness ==
    /\ putLog = <<1, 2, 3, 1, 2, 3>>
    /\ comment_fetch_period = [value |-> <<3, 2, 3, 1, 2>>, current_index |-> 1]

(***************************************************************************)
(* Properties of the early return of on_comment (checked under Spec).      *)
(***************************************************************************)
HasMember(v, key) == v.t = "obj" /\ key \in DOMAIN v.m

\* The document has the path to an array of actions.
HasActionList(v) ==
    /\ HasMember(v, "continuationContents")
    /\ HasMember(v.m["continuationContents"], "liveChatContinuation")
    /\ HasMember(v.m["continuationContents"].m["liveChatContinuation"],
                 "actions")
    /\ v.m["continuationContents"].m["liveChatContinuation"].m["actions"].t
            = "arr"

\* The body is a JSON document for which parse gives none.
ParseYieldsNone(body) ==
    IsSome(FromStr(body)) /\ ~HasActionList(FromStr(body)[1])

\* The task returned at line 188.
ReturnedSilently(t) == t.pc = "done" /\ t.comments = None

\* C19: the first step of an invocation whose body is a document without
\* the path ends it at once: no event is emitted or skipped, the
\* timestamp, the window and its cursor, the webview, the locks and the
\* other tasks are as before; and the task stays without events.
C19_ParseNoneReturnsSilently ==
    /\ [][\A i \in DOMAIN tasks :
            (tasks[i].pc = "start" /\ tasks'[i].pc # "start"
                /\ ParseYieldsNone(tasks[i].json_str)) =>
                /\ ReturnedSilently(tasks'[i])
                /\ tasks'[i].log = <<>>
                /\ \A j \in DOMAIN tasks : j # i => tasks'[j] = tasks[j]
                /\ UNCHANGED << last_comment_fetch, comment_fetch_period,
                                putLog, webview, locks, clock >>]_vars
    /\ [](\A i \in DOMAIN tasks :
            ReturnedSilently(tasks[i]) =>
                /\ tasks[i].log = <<>>
                /\ ~HasReplaced(tasks[i])
                /\ ~HasPut(tasks[i]))

\* C19 witness: of two accepted bodies the second gave none and its task
\* has returned; the timestamp and the window hold what the first task
\* stored, and only the first task has events.
C19_Witness ==
    /\ Len(tasks) = 2
    /\ ReturnedSilently(tasks[2])
    /\ tasks[2].log = <<>>
    /\ tasks[1].pc = "done"
    /\ Len(tasks[1].log) > 1
    /\ IsSome(last_comment_fetch)
    /\ putLog = <<DEFAULT_FETCH_PERIOD>>
    /\ comment_fetch_period = put(CyclicArrayNew, DEFAULT_FETCH_PERIOD)

(***************************************************************************)
(* Properties of the locks (checked under SpecFair).                       *)
(***************************************************************************)
Mutexes == {"ts", "win", "wv"}

\* The mutexes the holder (a task index, or 0 for on_page_load) holds.
HeldBy(h) == {m \in Mutexes : locks[m] = Some(h)}

\* The positions at which a task waits for a lock or sleeps.
Waiting == {"wantTs", "wantWin", "wantWv", "sleep"}

\* The lock a task holds at a position, if any.
LockAt(pc) ==
    CASE pc = "haveTs"  -> {"ts"}
      [] pc = "haveWin" -> {"win"}
      [] pc = "haveWv"  -> {"wv"}
      [] OTHER          -> {}

\* No task holds a lock while it waits for one or sleeps; a task holds
\* exactly the lock of its position; on_page_load holds the webview lock
\* only between its acquisition and its assignment.
NoHoldAndWait ==
    /\ \A i \in DOMAIN tasks :
          /\ HeldBy(i) = LockAt(tasks[i].pc)
          /\ tasks[i].pc \in Waiting => HeldBy(i) = {}
    /\ HeldBy(0) = (IF mainpc = "haveWv" THEN {"wv"} ELSE {})

\* Task i is at position pc.
At(i, pc) == i \in DOMAIN tasks /\ tasks[i].pc = pc

\* C20: no invocation holds a lock while it waits for another lock or
\* sleeps, and under the fair scheduling every lock request of a task and
\* of on_page_load is granted.
C20_NoHoldAndWaitLocksGranted ==
    /\ []NoHoldAndWait
    /\ \A i \in 1..MaxResponses :
          /\ At(i, "wantTs") ~> At(i, "haveTs")
          /\ At(i, "wantWin") ~> At(i, "haveWin")
          /\ At(i, "wantWv") ~> At(i, "haveWv")
    /\ (mainpc = "wantWv") ~> (mainpc = "haveWv")

\* C20 witness: one task waits for the webview lock while on_page_load
\* holds it, and the other task sleeps between two comments.
C20_Witness ==
    /\ mainpc = "haveWv"
    /\ locks.wv = Some(0)
    /\ \E i, j \in DOMAIN tasks :
          /\ tasks[i].pc = "wantWv"
          /\ tasks[j].pc = "sleep"

=============================================================================
